---- MODULE Spec2Model ----
(***************************************************************************)
(* Model of src/src/find_rss_urls.py: the domain join of process_in_chunks *)
(* and the paginated generator filter_about_pages_streaming; and of        *)
(* src/src/filter.py: find_about_pages_duckdb_fast, a script of its own    *)
(* (specification FastSpec).                                               *)
(*                                                                         *)
(* A VARCHAR is a sequence of one-character strings; SQL NULL is the       *)
(* value NULL below, which is no such sequence.  A table or file is the    *)
(* sequence of its rows.  Every conn.execute is one step; the steps that   *)
(* the claims need to fail (the CREATE TABLE of the feeds, the COPY, a     *)
(* chunk read of the filter) have a second action in which they raise.     *)
(* The chunk read of the filter is two steps, the fetch and the assignment *)
(* to results, because what the frame holds differs between them.          *)
(***************************************************************************)
EXTENDS Integers, Sequences, FiniteSets, TLC

(* ------------------------------ bounds -------------------------------- *)
MaxFeeds == 2
MaxMeta == 2
MaxChunk == 2
MaxPieces == 3

(* --------------------------- strings and SQL --------------------------- *)
NULL == <<"NULL">>

HTTP == <<"h", "t", "t", "p", ":", "/", "/">>

HTTPS == <<"h", "t", "t", "p", "s", ":", "/", "/">>

Range(s) == {s[i] : i \in DOMAIN s}

IsPrefix(p, s) == Len(p) <= Len(s) /\ SubSeq(s, 1, Len(p)) = p

Min(S) == CHOOSE x \in S : \A y \in S : x <= y

(* str.replace(old, new): every non-overlapping occurrence, left to right *)
RECURSIVE Replace(_, _, _)
Replace(s, old, new) ==
    IF Len(s) < Len(old) THEN s
    ELSE IF SubSeq(s, 1, Len(old)) = old
         THEN new \o Replace(SubSeq(s, Len(old) + 1, Len(s)), old, new)
         ELSE <<s[1]>> \o Replace(Tail(s), old, new)

(* s.split(ch)[0]: the text before the first ch, all of s when there is none *)
SplitFirst(s, ch) ==
    LET at == {i \in DOMAIN s : s[i] = ch}
    IN  IF at = {} THEN s ELSE SubSeq(s, 1, Min(at) - 1)

extract_domain(url) ==
    LET domain == Replace(Replace(url, HTTP, <<>>), HTTPS, <<>>)
    IN  SplitFirst(SplitFirst(domain, "/"), ":")

(* the registered scalar function: NULL in, NULL out *)
sql_extract_domain(url) == IF url = NULL THEN NULL ELSE extract_domain(url)

(* position(needle IN haystack): 1-based place of the first occurrence,    *)
(* 0 when there is none; the empty needle is found at 1                    *)
Position(needle, haystack) ==
    LET at == {i \in 1..(Len(haystack) - Len(needle) + 1) :
                  SubSeq(haystack, i, i + Len(needle) - 1) = needle}
    IN  IF at = {} THEN 0 ELSE Min(at)

LowerChar(c) ==
    CASE c = "M" -> "m"
      [] c = "E" -> "e"
      [] c = "Z" -> "z"
      [] OTHER -> c

Lower(s) == [i \in DOMAIN s |-> LowerChar(s[i])]

(* s LIKE p: in p, % stands for any text and _ for any one character *)
RECURSIVE Like(_, _)
Like(s, p) ==
    IF p = <<>> THEN s = <<>>
    ELSE IF p[1] = "%"
         THEN Like(s, Tail(p)) \/ (s # <<>> /\ Like(Tail(s), p))
         ELSE /\ s # <<>>
              /\ (p[1] = "_" \/ p[1] = s[1])
              /\ Like(Tail(s), Tail(p))

(* WHERE EXISTS (SELECT 1 FROM about_patterns p                            *)
(*               WHERE LOWER(url) LIKE '%' || LOWER(p.pattern) || '%')     *)
MatchesAbout(url, about_pages) ==
    /\ url # NULL
    /\ \E k \in DOMAIN about_pages :
          /\ about_pages[k] # NULL
          /\ Like(Lower(url), <<"%">> \o Lower(about_pages[k]) \o <<"%">>)

(* ------------------------------ inputs -------------------------------- *)
SeqsUpTo(S, n) == UNION {[1..k -> S] : k \in 0..n}

(* column0 of the feed list: "b:8/f", "/f", "http://a.b" *)
FeedUrls ==
    { <<"b", ":", "8", "/", "f">>,
      <<"/", "f">>,
      HTTP \o <<"a", ".", "b">> }

(* rows of the metadata corpus: column0, column2, column3:                 *)
(* ("https://a.b/Me", "Hi", NULL), ("http://b/mx", NULL, NULL)             *)
MetaRows ==
    { [url |-> HTTPS \o <<"a", ".", "b", "/", "M", "e">>,
       title |-> <<"H", "i">>, description |-> NULL],
      [url |-> HTTP \o <<"b", "/", "m", "x">>,
       title |-> NULL, description |-> NULL] }

(* about_pages arguments: [], ["/ME"], ["/zz", "/_x"] *)
PatternLists ==
    { <<>>,
      << <<"/", "M", "E">> >>,
      << <<"/", "z", "z">>, <<"/", "_", "x">> >> }

(* ------------------------------- state -------------------------------- *)
VARIABLES
    feeds_file,      \* the rows of feeds_file (column0)
    urls_meta_path,  \* the rows of the parquet file at urls_meta_path
    about_pages,     \* the pattern list handed to the filter
    pic,             \* the frame of process_in_chunks and its in-memory tables
    output,          \* the file at output_path
    gen,             \* the frame of the filter_about_pages_streaming generator
    yielded,         \* what the consumer of the generator has received, in order
    obs,             \* the engine's chunk reads of this generation
    matching_pages,  \* list(...) of the previous generation that was fully consumed
    fast             \* filter.py: the call of find_about_pages_duckdb_fast

vars == <<feeds_file, urls_meta_path, about_pages, pic, output, gen, yielded,
          obs, matching_pages, fast>>

inputs == <<feeds_file, urls_meta_path, about_pages>>

filterVars == <<gen, yielded, obs, matching_pages>>

(* the frame of process_in_chunks before the call and after it has ended *)
NoPic ==
    [pc |-> "call", conn |-> "none", chunk_size |-> 0, feeds |-> <<>>,
     urls_meta |-> <<>>, total_rows |-> 0, processed_rows |-> 0, printed |-> 0,
     total_matches |-> 0]

NoPages == [chunk_size |-> 0, rows |-> {}]

NoGen ==
    [pc |-> "none", conn |-> "none", chunk_size |-> 0, total_rows |-> 0,
     processed_rows |-> 0, matching_count |-> 0, results |-> <<>>, i |-> 0,
     fetched |-> <<>>, row |-> <<>>]

NoObs == [reads |-> 0, failed |-> 0]

(* Python's None *)
None == <<"None">>

(* filter.py: the arguments of find_about_pages_duckdb_fast (column2 of    *)
(* feeds_file, column0 of urls_meta_file, output_parquet_file), its        *)
(* connection, its two temporary tables, the file at output_parquet_file   *)
(* and what the call returned                                              *)
NoFast ==
    [pc |-> "call", con |-> "none", feeds_file |-> <<>>, urls_meta_file |-> <<>>,
     output_parquet_file |-> None, feeds |-> <<>>, potential_about_pages |-> {},
     parquet |-> [state |-> "absent", urls |-> {}], returned |-> <<"unset">>]

Init ==
    /\ feeds_file \in SeqsUpTo(FeedUrls, MaxFeeds)
    /\ urls_meta_path \in SeqsUpTo(MetaRows, MaxMeta)
    /\ about_pages \in PatternLists
    /\ pic = NoPic
    /\ output = [state |-> "absent", rows |-> <<>>]
    /\ gen = NoGen
    /\ yielded = <<>>
    /\ obs = NoObs
    /\ matching_pages = NoPages
    /\ fast = NoFast

(* -------------------------- process_in_chunks -------------------------- *)
FeedRecord(feed_url) ==
    [feed_url |-> feed_url, feed_domain |-> sql_extract_domain(feed_url)]

MetaRecord(row) ==
    [url |-> row.url, url_domain |-> sql_extract_domain(row.url),
     title |-> row.title, description |-> row.description]

(* a join on equal domains instead of on position(...) > 0 *)
JoinOnEqualDomains(f, u) ==
    /\ f.feed_domain # NULL
    /\ u.url_domain # NULL
    /\ f.feed_domain = u.url_domain

(* ON position(f.feed_domain IN u.url_domain) > 0: NULL is not true *)
JoinOn(f, u) ==
    /\ f.feed_domain # NULL
    /\ u.url_domain # NULL
    /\ Position(f.feed_domain, u.url_domain) > 0

JoinedRecord(f, u) ==
    [feed_url |-> f.feed_url, feed_domain |-> f.feed_domain, url |-> u.url,
     url_domain |-> u.url_domain, title |-> u.title,
     description |-> u.description]

NullMeta == [url |-> NULL, url_domain |-> NULL, title |-> NULL, description |-> NULL]

(* the rows FROM feeds f LEFT JOIN urls_meta u gives for one feed row *)
JoinRowsOf(f, urls_meta) ==
    LET hits == SelectSeq(urls_meta, LAMBDA u : JoinOn(f, u))
    IN  IF hits = <<>>
        THEN <<JoinedRecord(f, NullMeta)>>
        ELSE [k \in DOMAIN hits |-> JoinedRecord(f, hits[k])]

RECURSIVE LeftJoin(_, _)
LeftJoin(feeds, urls_meta) ==
    IF feeds = <<>> THEN <<>>
    ELSE JoinRowsOf(Head(feeds), urls_meta) \o LeftJoin(Tail(feeds), urls_meta)

MinOf(a, b) == IF a <= b THEN a ELSE b

(* lines 77-88: the connection is opened and configured *)
PicCall ==
    /\ pic.pc = "call"
    /\ \E c \in 1..MaxChunk :
          pic' = [pic EXCEPT !.pc = "create_feeds", !.conn = "open",
                             !.chunk_size = c]
    /\ UNCHANGED <<fast, inputs, output, filterVars>>

(* lines 90-99, the statement without the stray token `dd` of line 93;    *)
(* as written the engine rejects the statement, which is CreateFeedsRaises *)
CreateFeeds ==
    /\ pic.pc = "create_feeds"
    /\ pic' = [pic EXCEPT !.pc = "count",
                          !.feeds = [k \in DOMAIN feeds_file |-> FeedRecord(feeds_file[k])]]
    /\ UNCHANGED <<fast, inputs, output, filterVars>>

(* lines 91-99: the statement raises (an unreadable feeds_file, a statement *)
(* the engine rejects); nothing catches it and conn.close() is not reached *)
CreateFeedsRaises ==
    /\ pic.pc = "create_feeds"
    /\ pic' = [NoPic EXCEPT !.pc = "raised", !.conn = "open"]
    /\ UNCHANGED <<fast, inputs, output, filterVars>>

(* lines 101-116 *)
CountRows ==
    /\ pic.pc = "count"
    /\ pic' = [pic EXCEPT !.pc = "load", !.urls_meta = <<>>,
                          !.total_rows = Len(urls_meta_path),
                          !.processed_rows = 0]
    /\ UNCHANGED <<fast, inputs, output, filterVars>>

(* a window that is read only when a whole chunk is left *)
LoadWholeChunksOnly(rows, limit, offset) ==
    IF offset + limit <= Len(rows)
    THEN SubSeq(rows, offset + 1, offset + limit)
    ELSE <<>>

(* FROM read_parquet(...) LIMIT chunk_size OFFSET processed_rows: a scan of *)
(* one file keeps the file's row order, so the window is a slice of it     *)
LoadWindow(rows, limit, offset) ==
    SubSeq(rows, offset + 1, MinOf(offset + limit, Len(rows)))

(* lines 119-133: one iteration of the loading loop *)
LoadChunk ==
    /\ pic.pc = "load"
    /\ pic.processed_rows < pic.total_rows
    /\ LET window == LoadWindow(urls_meta_path, pic.chunk_size, pic.processed_rows)
           processed_rows == pic.processed_rows + pic.chunk_size
       IN  pic' = [pic EXCEPT
                     !.urls_meta = pic.urls_meta \o
                         [k \in DOMAIN window |-> MetaRecord(window[k])],
                     !.processed_rows = processed_rows,
                     !.printed = MinOf(processed_rows, pic.total_rows)]
    /\ UNCHANGED <<fast, inputs, output, filterVars>>

(* lines 119, 135-139: the loop ends, the index is created *)
CreateIndex ==
    /\ pic.pc = "load"
    /\ ~(pic.processed_rows < pic.total_rows)
    /\ pic' = [pic EXCEPT !.pc = "copy"]
    /\ UNCHANGED <<fast, inputs, output, filterVars>>

(* lines 141-155: COPY ... TO output_path creates the file ... *)
CopyOpen ==
    /\ pic.pc = "copy"
    /\ pic' = [pic EXCEPT !.pc = "copying"]
    /\ output' = [state |-> "partial", rows |-> <<>>]
    /\ UNCHANGED <<fast, inputs, filterVars>>

(* ... streams the join into it, a row group of CHUNK_SIZE rows at a time ... *)
CopyRowGroup ==
    /\ pic.pc = "copying"
    /\ LET joined == LeftJoin(pic.feeds, pic.urls_meta)
           written == Len(output.rows)
       IN  /\ written < Len(joined)
           /\ output' = [output EXCEPT
                           !.rows = SubSeq(joined, 1,
                                           MinOf(written + pic.chunk_size, Len(joined)))]
    /\ UNCHANGED <<fast, inputs, pic, filterVars>>

(* ... and writes the footer that makes it a readable parquet file *)
CopyClose ==
    /\ pic.pc = "copying"
    /\ Len(output.rows) = Len(LeftJoin(pic.feeds, pic.urls_meta))
    /\ pic' = [pic EXCEPT !.pc = "count_matches"]
    /\ output' = [output EXCEPT !.state = "complete"]
    /\ UNCHANGED <<fast, inputs, filterVars>>

(* lines 141-155: the COPY raises partway (disk full); nothing catches it, *)
(* nothing removes what was written, conn.close() is not reached          *)
CopyRaises ==
    /\ pic.pc = "copying"
    /\ pic' = [NoPic EXCEPT !.pc = "raised", !.conn = "open"]
    /\ UNCHANGED <<fast, inputs, output, filterVars>>

(* lines 157-161 *)
PicReturn ==
    /\ pic.pc = "count_matches"
    /\ pic' = [NoPic EXCEPT !.pc = "returned", !.conn = "closed"]
    /\ UNCHANGED <<fast, inputs, output, filterVars>>

(* -------------------- filter_about_pages_streaming -------------------- *)
MaxOf(a, b) == IF a >= b THEN a ELSE b

(* SELECT DISTINCT <six fields> FROM read_parquet(?) WHERE EXISTS (...):   *)
(* the distinct rows of the whole file that pass the pattern test          *)
SelectDistinct(rows, patterns) ==
    {r \in Range(rows) : MatchesAbout(r.url, patterns)}

(* LIMIT limit OFFSET offset of a result that has no ORDER BY: the engine  *)
(* fixes no order for the distinct rows and need not repeat the order of   *)
(* an earlier statement, so the page is any `limit` distinct rows that one *)
(* ordering of D puts after its first `offset`                             *)
LimitOffset(D, limit, offset) ==
    LET n == MinOf(limit, MaxOf(0, Cardinality(D) - offset))
    IN  {page \in [1..n -> D] : \A a, b \in 1..n : page[a] = page[b] => a = b}

(* the page of the matching rows among the input rows offset+1..offset+limit *)
FetchAllOfInputWindow(rows, patterns, limit, offset) ==
    LimitOffset(SelectDistinct(LoadWindow(rows, limit, offset), patterns), limit, 0)

(* the result sets the statement of lines 185-201 can fetch *)
FetchAll(rows, patterns, limit, offset) ==
    LimitOffset(SelectDistinct(rows, patterns), limit, offset)

(* lines 163, 232: calling the generator function runs none of its body;   *)
(* what list(...) made of the generation before it, if that one ran to its *)
(* end, stays with the caller                                              *)
GenCreate ==
    /\ pic.pc \in {"returned", "raised"}
    /\ gen.pc \in {"none", "done", "error", "closed"}
    /\ \E c \in 1..MaxChunk : gen' = [NoGen EXCEPT !.pc = "idle", !.chunk_size = c]
    /\ yielded' = <<>>
    /\ obs' = NoObs
    /\ matching_pages' =
          IF gen.pc = "done"
          THEN [chunk_size |-> gen.chunk_size, rows |-> Range(yielded)]
          ELSE matching_pages
    /\ UNCHANGED <<fast, inputs, pic, output>>

(* lines 165-182, on the first next(): connect, load the patterns, count   *)
(* the rows of the file; the count raises when output_path holds no        *)
(* complete parquet file                                                   *)
GenStart ==
    /\ gen.pc = "idle"
    /\ IF output.state = "complete"
       THEN gen' = [gen EXCEPT !.pc = "while", !.conn = "open",
                               !.total_rows = Len(output.rows),
                               !.processed_rows = 0, !.matching_count = 0]
       ELSE gen' = [gen EXCEPT !.pc = "error", !.conn = "open"]
    /\ UNCHANGED <<fast, inputs, pic, output, yielded, obs, matching_pages>>

(* lines 184-201: the loop test passes and conn.execute(...).fetchall()    *)
(* returns the list of one page; the name results still binds the list of  *)
(* the page before                                                         *)
ReadChunk ==
    /\ gen.pc = "while"
    /\ gen.processed_rows < gen.total_rows
    /\ \E page \in FetchAll(output.rows, about_pages, gen.chunk_size,
                            gen.processed_rows) :
          gen' = [gen EXCEPT !.pc = "store", !.fetched = page]
    /\ obs' = [obs EXCEPT !.reads = obs.reads + 1]
    /\ UNCHANGED <<fast, inputs, pic, output, yielded, matching_pages>>

(* line 185, `results = ...`: the name is bound to the fetched list, the   *)
(* list of the page before loses its reference; line 203 starts iterating  *)
StoreResults ==
    /\ gen.pc = "store"
    /\ gen' = [gen EXCEPT !.pc = "for", !.results = gen.fetched,
                          !.fetched = <<>>, !.i = 0]
    /\ UNCHANGED <<fast, inputs, pic, output, yielded, obs, matching_pages>>

(* the failed read is swallowed and the scan goes on with the next chunk *)
ReadChunkSkipped ==
    /\ gen.pc = "while"
    /\ gen.processed_rows < gen.total_rows
    /\ gen' = [gen EXCEPT !.processed_rows = gen.processed_rows + gen.chunk_size]
    /\ obs' = [obs EXCEPT !.failed = obs.failed + 1]
    /\ UNCHANGED <<fast, inputs, pic, output, yielded, matching_pages>>

(* lines 185-201: the statement raises; the exception leaves the generator *)
(* through the consumer's next(), past conn.close()                        *)
ReadChunkRaises ==
    /\ gen.pc = "while"
    /\ gen.processed_rows < gen.total_rows
    /\ gen' = [gen EXCEPT !.pc = "error"]
    /\ obs' = [obs EXCEPT !.failed = obs.failed + 1]
    /\ UNCHANGED <<fast, inputs, pic, output, yielded, matching_pages>>

(* lines 203-212: the loop variable row is bound to the next row of the    *)
(* page, the row is handed to the consumer and the generator is suspended  *)
(* at the yield                                                            *)
YieldRow ==
    /\ gen.pc \in {"for", "yield"}
    /\ gen.i < Len(gen.results)
    /\ gen' = [gen EXCEPT !.pc = "yield", !.i = gen.i + 1,
                          !.row = <<gen.results[gen.i + 1]>>,
                          !.matching_count = gen.matching_count + 1]
    /\ yielded' = Append(yielded, gen.results[gen.i + 1])
    /\ UNCHANGED <<fast, inputs, pic, output, obs, matching_pages>>

(* the offset moves on by the number of rows the page held *)
AdvanceByMatches ==
    /\ gen.pc \in {"for", "yield"}
    /\ gen.i = Len(gen.results)
    /\ gen' = [gen EXCEPT !.pc = "while",
                          !.processed_rows = gen.processed_rows + Len(gen.results)]
    /\ UNCHANGED <<fast, inputs, pic, output, yielded, obs, matching_pages>>

(* lines 203, 214: the page is used up, the offset moves on *)
AdvanceOffset ==
    /\ gen.pc \in {"for", "yield"}
    /\ gen.i = Len(gen.results)
    /\ gen' = [gen EXCEPT !.pc = "while",
                          !.processed_rows = gen.processed_rows + gen.chunk_size]
    /\ UNCHANGED <<fast, inputs, pic, output, yielded, obs, matching_pages>>

(* lines 184, 218-221: the loop ends, the connection is closed, the        *)
(* generator returns                                                       *)
GenReturn ==
    /\ gen.pc = "while"
    /\ ~(gen.processed_rows < gen.total_rows)
    /\ gen' = [gen EXCEPT !.pc = "done", !.conn = "closed"]
    /\ UNCHANGED <<fast, inputs, pic, output, yielded, obs, matching_pages>>

(* line 205: the consumer stops: close() or abandonment raises             *)
(* GeneratorExit at the yield, which no try/finally of the body handles    *)
GenClose ==
    /\ gen.pc = "yield"
    /\ gen' = [gen EXCEPT !.pc = "closed"]
    /\ UNCHANGED <<fast, inputs, pic, output, yielded, obs, matching_pages>>

(* ------------------ filter.py: find_about_pages_duckdb_fast ------------ *)
(* ABOUT_PATTERNS, lines 4-55: of its 47 patterns the two that a URL of    *)
(* FastMetaUrls can contain                                                *)
ABOUT_PATTERNS == << <<"/", "m", "e">>, <<"/", "b", "i", "o">> >>

(* column2 of feeds.csv: "http://a.b/f", "a.b", "https://a.b" *)
FastFeedUrls ==
    { HTTP \o <<"a", ".", "b", "/", "f">>,
      <<"a", ".", "b">>,
      HTTPS \o <<"a", ".", "b">> }

(* column0 of urls-meta: "http://a.b/me", "a.b/me?x", "http://a.b/meet" *)
FastMetaUrls ==
    { HTTP \o <<"a", ".", "b", "/", "m", "e">>,
      <<"a", ".", "b", "/", "m", "e", "?", "x">>,
      HTTP \o <<"a", ".", "b", "/", "m", "e", "e", "t">> }

(* output_parquet_file: None, '' and 'o' *)
OutputPaths == {None, <<>>, <<"o">>}

(* REGEXP_EXTRACT(s, '^(?:https?:\/\/)?([^/]+)'), group 0: the whole match, *)
(* the scheme if there is one and the run of non-slash characters after    *)
(* it; without such a run the match is retried without the scheme; '' when *)
(* nothing matches                                                         *)
RegexpExtract(s) ==
    LET scheme == IF IsPrefix(HTTPS, s) THEN HTTPS
                  ELSE IF IsPrefix(HTTP, s) THEN HTTP
                  ELSE <<>>
        host == SplitFirst(SubSeq(s, Len(scheme) + 1, Len(s)), "/")
    IN  IF host # <<>> THEN scheme \o host ELSE SplitFirst(s, "/")

(* REGEXP_MATCHES(url, '(<pattern>|...)($|\?)'): somewhere in url one of   *)
(* the patterns stands at the end or before a "?"                          *)
RegexpMatches(url) ==
    \E k \in DOMAIN ABOUT_PATTERNS, at \in DOMAIN url :
        LET last == at + Len(ABOUT_PATTERNS[k]) - 1
        IN  /\ last <= Len(url)
            /\ SubSeq(url, at, last) = ABOUT_PATTERNS[k]
            /\ (last = Len(url) \/ url[last + 1] = "?")

(* lines 105-117: SELECT DISTINCT ud.url ... INNER JOIN feeds f            *)
(* ON ud.extracted_domain = f.domain                                       *)
PotentialAboutPages(urls, feeds) ==
    {url \in Range(urls) :
        /\ RegexpMatches(url)
        /\ \E domain \in Range(feeds) : RegexpExtract(url) = domain}

(* the orders in which a scan can give the rows of a table made by         *)
(* SELECT DISTINCT                                                         *)
Orderings(D) ==
    {list \in [1..Cardinality(D) -> D] :
        \A a, b \in 1..Cardinality(D) : list[a] = list[b] => a = b}

(* `if output_parquet_file:` is the truth value of the argument *)
Truthy(output_parquet_file) ==
    output_parquet_file # None /\ output_parquet_file # <<>>

(* a call with its arguments, before line 75 *)
FastInit ==
    /\ feeds_file = <<>>
    /\ urls_meta_path = <<>>
    /\ about_pages = <<>>
    /\ pic = NoPic
    /\ output = [state |-> "absent", rows |-> <<>>]
    /\ gen = NoGen
    /\ yielded = <<>>
    /\ obs = NoObs
    /\ matching_pages = NoPages
    /\ \E f \in SeqsUpTo(FastFeedUrls, MaxFeeds), u \in SeqsUpTo(FastMetaUrls, MaxMeta),
          o \in OutputPaths :
          fast = [NoFast EXCEPT !.feeds_file = f, !.urls_meta_file = u,
                                !.output_parquet_file = o]

FastUnchanged ==
    UNCHANGED <<inputs, pic, output, gen, yielded, obs, matching_pages>>

(* lines 75-78 *)
FastConnect ==
    /\ fast.pc = "call"
    /\ fast' = [fast EXCEPT !.pc = "settings", !.con = "open"]
    /\ FastUnchanged

(* lines 80-87 *)
FastSettings ==
    /\ fast.pc = "settings"
    /\ fast' = [fast EXCEPT !.pc = "create_feeds"]
    /\ FastUnchanged

(* lines 90-97 *)
FastCreateFeeds ==
    /\ fast.pc = "create_feeds"
    /\ fast' = [fast EXCEPT
                  !.pc = "fast_query",
                  !.feeds = [k \in DOMAIN fast.feeds_file |->
                                RegexpExtract(fast.feeds_file[k])]]
    /\ FastUnchanged

(* lines 100-120 *)
FastQuery ==
    /\ fast.pc = "fast_query"
    /\ fast' = [fast EXCEPT
                  !.pc = "if_output",
                  !.potential_about_pages =
                      PotentialAboutPages(fast.urls_meta_file, fast.feeds)]
    /\ FastUnchanged

(* lines 123-130: the table is copied to the file, the call returns None *)
FastCopy ==
    /\ fast.pc = "if_output"
    /\ Truthy(fast.output_parquet_file)
    /\ fast' = [fast EXCEPT
                  !.pc = "finally",
                  !.parquet = [state |-> "written",
                               urls |-> fast.potential_about_pages],
                  !.returned = None]
    /\ FastUnchanged

(* lines 131-135: the call returns the urls of the table as a list *)
FastFetch ==
    /\ fast.pc = "if_output"
    /\ ~Truthy(fast.output_parquet_file)
    /\ \E about_pages_list \in Orderings(fast.potential_about_pages) :
          fast' = [fast EXCEPT !.pc = "finally", !.returned = about_pages_list]
    /\ FastUnchanged

(* lines 78-133: duckdb.connect or a con.execute raises (a file that is    *)
(* missing or unreadable, an output path that cannot be written)           *)
FastRaises ==
    /\ fast.pc \in {"call", "settings", "create_feeds", "fast_query", "if_output"}
    /\ fast' = [fast EXCEPT !.pc = "except"]
    /\ FastUnchanged

(* lines 137-139: except Exception: print, return [] *)
FastExcept ==
    /\ fast.pc = "except"
    /\ fast' = [fast EXCEPT !.pc = "finally", !.returned = <<>>]
    /\ FastUnchanged

(* lines 140-142: finally: if con: con.close(); the call has returned *)
FastFinally ==
    /\ fast.pc = "finally"
    /\ fast' = [fast EXCEPT
                  !.pc = "returned",
                  !.con = IF fast.con # "none" THEN "closed" ELSE fast.con]
    /\ FastUnchanged

FastNext ==
    \/ FastConnect
    \/ FastSettings
    \/ FastCreateFeeds
    \/ FastQuery
    \/ FastCopy
    \/ FastFetch
    \/ FastRaises
    \/ FastExcept
    \/ FastFinally

FastSpec == FastInit /\ [][FastNext]_vars

(* --------------------------- specifications --------------------------- *)
GenStep ==
    GenStart \/ ReadChunk \/ StoreResults \/ YieldRow \/ AdvanceOffset \/ GenReturn

Next ==
    \/ PicCall
    \/ CreateFeeds
    \/ CreateFeedsRaises
    \/ CountRows
    \/ LoadChunk
    \/ CreateIndex
    \/ CopyOpen
    \/ CopyRowGroup
    \/ CopyClose
    \/ CopyRaises
    \/ PicReturn
    \/ GenCreate
    \/ GenStart
    \/ ReadChunk
    \/ StoreResults
    \/ ReadChunkRaises
    \/ YieldRow
    \/ AdvanceOffset
    \/ GenReturn
    \/ GenClose

Spec == Init /\ [][Next]_vars

(* a consumer that keeps calling next() on the generator it holds *)
FairSpec == Spec /\ WF_vars(GenStep)

(* ------------------------------- claims ------------------------------- *)
(* needle occurs in haystack as a run of consecutive characters *)
OccursIn(needle, haystack) ==
    \E at \in 0..(Len(haystack) - Len(needle)) :
        \A k \in 1..Len(needle) : haystack[at + k] = needle[k]

Persisted == Range(output.rows)

(* the COPY has completed and process_in_chunks still holds its tables *)
JoinPersisted == pic.pc = "count_matches" /\ output.state = "complete"

PairOf(f, u) == JoinedRecord(f, u)

Unmatched(f) ==
    \A u \in Range(pic.urls_meta) : ~OccursIn(f.feed_domain, u.url_domain)

SubstringMatches ==
    {r \in Persisted :
        /\ r.url # NULL
        /\ \E k \in DOMAIN about_pages :
              OccursIn(Lower(about_pages[k]), Lower(r.url))}

TimesYielded(r) == Cardinality({k \in DOMAIN yielded : yielded[k] = r})

(* C3: a fully consumed generation has yielded exactly the distinct joined *)
(* records whose lower-cased url contains a lower-cased pattern as a       *)
(* substring: none is missed across the pages, no other record is yielded. *)
C3_YieldsExactlySubstringMatches ==
    gen.pc = "done" => Range(yielded) = SubstringMatches

(* C4: no record is yielded twice, and a fully consumed generation has     *)
(* yielded each distinct record that passes the pattern test exactly once. *)
C4_EachMatchExactlyOnce ==
    /\ \A r \in Range(yielded) : TimesYielded(r) = 1
    /\ gen.pc = "done" =>
          \A r \in SelectDistinct(output.rows, about_pages) : TimesYielded(r) = 1

(* C5: two fully consumed generations over the same joined table and       *)
(* pattern list, whatever their chunk sizes, yield the same set of records.*)
C5_ChunkSizeInvariance ==
    (gen.pc = "done" /\ matching_pages # NoPages) =>
        Range(yielded) = matching_pages.rows

(* the offset of the chunk read whose page the generator is working on *)
OffsetInvariant ==
    /\ gen.pc \in {"store", "for", "yield"} =>
          gen.processed_rows = (obs.reads - 1) * gen.chunk_size
    /\ gen.pc = "while" =>
          gen.processed_rows = (obs.reads + obs.failed) * gen.chunk_size

InputWindow == LoadWindow(output.rows, gen.chunk_size, gen.processed_rows)

C7_FailedReadAborts ==
    /\ [](obs.failed > 0 => gen.pc = "error" /\ obs.failed = 1)
    /\ [][gen.pc = "error" =>
             /\ matching_pages' = matching_pages
             /\ \/ UNCHANGED <<gen, yielded, obs>>
                \/ gen'.pc = "idle" /\ yielded' = <<>> /\ obs' = NoObs]_vars

(* a chunk read raised after the generator had yielded a record *)
C7_Witness ==
    /\ obs.failed > 0
    /\ gen.pc = "error"
    /\ obs.reads > 0
    /\ Len(yielded) > 0

(* C8: however the generation ends (it ran to its end, the consumer        *)
(* stopped at a yield, a chunk read raised), its connection is released.   *)
C8_ConnectionReleased ==
    (gen.pc \in {"done", "closed"} \/ (gen.pc = "error" /\ obs.failed > 0)) =>
        gen.conn = "closed"

CeilDiv(n, c) == (n + c - 1) \div c

(* C10: under a consumer that keeps calling next(), a generation over a    *)
(* complete table of N rows reaches Done unless a chunk read raises or the *)
(* consumer stops; the offset only grows, is a multiple of chunk_size at   *)
(* every chunk read, Done is reached after exactly ceil(N / chunk_size)    *)
(* chunk reads, and at most chunk_size records are yielded per read.       *)
C10_ScanTerminates ==
    /\ [](gen.pc \in {"while", "store", "for", "yield", "done"} =>
             /\ gen.total_rows = Len(output.rows)
             /\ gen.processed_rows % gen.chunk_size = 0
             /\ gen.processed_rows =
                   gen.chunk_size *
                       (IF gen.pc \in {"store", "for", "yield"}
                        THEN obs.reads - 1 ELSE obs.reads)
             /\ gen.pc \in {"store", "for", "yield"} =>
                   gen.processed_rows < gen.total_rows
             /\ Len(yielded) <= obs.reads * gen.chunk_size)
    /\ [](gen.pc = "done" => obs.reads = CeilDiv(gen.total_rows, gen.chunk_size))
    /\ [][gen'.pc # "idle" => gen'.processed_rows >= gen.processed_rows]_vars
    /\ (gen.pc = "idle" /\ output.state = "complete")
           ~> (gen.pc = "done" \/ obs.failed > 0 \/ gen.pc = "closed")

(* a generation that reached Done after several chunk reads, the last of   *)
(* them over fewer than chunk_size input rows, and yielded records         *)
C10_Witness ==
    /\ gen.pc = "done"
    /\ obs.reads > 1
    /\ gen.total_rows % gen.chunk_size # 0
    /\ Len(yielded) > 0

(* ------------------------------- C11 ----------------------------------- *)
(* the row INSERT INTO urls_meta makes of one source row                   *)
LoadedRow(row) ==
    [url |-> row.url, url_domain |-> extract_domain(row.url),
     title |-> row.title, description |-> row.description]

(* what the loading loop has to have reached when it has finished          *)
LoadFinished ==
    pic.pc = "copy" =>
        /\ pic.total_rows = Len(urls_meta_path)
        /\ pic.urls_meta = [k \in DOMAIN urls_meta_path |-> LoadedRow(urls_meta_path[k])]
        /\ pic.printed = pic.total_rows

(* the reported progress of the loop that is running or has just finished  *)
ProgressBounded ==
    pic.pc \in {"load", "copy"} =>
        /\ pic.printed <= pic.total_rows
        /\ Len(pic.urls_meta) = pic.printed

UrlPieces == {HTTP, HTTPS, <<"a">>, <<"/">>, <<":">>}

RECURSIVE Flatten(_)
Flatten(pieces) ==
    IF pieces = <<>> THEN <<>> ELSE Head(pieces) \o Flatten(Tail(pieces))

UrlStrings == {Flatten(pieces) : pieces \in SeqsUpTo(UrlPieces, MaxPieces)}

(* a feed list of one such URL and an empty corpus *)
UrlInit ==
    /\ feeds_file \in {<<url>> : url \in UrlStrings}
    /\ urls_meta_path = <<>>
    /\ about_pages = <<>>
    /\ pic = NoPic
    /\ output = [state |-> "absent", rows |-> <<>>]
    /\ gen = NoGen
    /\ yielded = <<>>
    /\ obs = NoObs
    /\ matching_pages = NoPages
    /\ fast = NoFast

(* process_in_chunks up to the feeds table, where extract_domain is applied *)
UrlNext == PicCall \/ CreateFeeds \/ CreateFeedsRaises

UrlSpec == UrlInit /\ [][UrlNext]_vars

(* the reference rule: strip the leading scheme, then the text before the  *)
(* first "/", then before the first ":"                                    *)
StripLeadingScheme(url) ==
    IF IsPrefix(HTTPS, url) THEN SubSeq(url, Len(HTTPS) + 1, Len(url))
    ELSE IF IsPrefix(HTTP, url) THEN SubSeq(url, Len(HTTP) + 1, Len(url))
    ELSE url

ReferenceDomain(url) ==
    SplitFirst(SplitFirst(StripLeadingScheme(url), "/"), ":")

(* C12: for every URL string, wherever "http://" or "https://" occurs in   *)
(* it, the feed_domain that extract_domain computed is the result of the   *)
(* reference rule and contains neither "/" nor ":".                        *)
C12_ReferenceRule ==
    \A k \in DOMAIN pic.feeds :
        /\ pic.feeds[k].feed_domain = ReferenceDomain(pic.feeds[k].feed_url)
        /\ \A i \in DOMAIN pic.feeds[k].feed_domain :
               pic.feeds[k].feed_domain[i] \notin {"/", ":"}

(* ------------------------------- C13 ----------------------------------- *)
(* the generator's frame is alive: it is running or suspended at a yield  *)
GenAlive == gen.pc \in {"while", "store", "for", "yield"}

(* the loop variable row still binds a row of a page that results no       *)
(* longer binds: no row of the page in results has been iterated yet       *)
RowOfEarlierChunk == gen.row # <<>> /\ gen.i = 0

(* the fetched rows the frame refers to: the list bound to results, the    *)
(* list fetchall() has returned and line 185 has not stored yet, and the   *)
(* row bound to the loop variable when it is of neither                    *)
HeldRows ==
    Len(gen.results) + Len(gen.fetched) + (IF RowOfEarlierChunk THEN 1 ELSE 0)

(* C13: at every point of a generation, suspended at a yield or not, the   *)
(* generator holds at most chunk_size fetched rows, and once the next      *)
(* chunk has been read it holds no row of an earlier chunk.                *)
C13_AtMostOneChunkHeld ==
    /\ GenAlive => HeldRows <= gen.chunk_size
    /\ gen.pc \in {"for", "yield"} => ~RowOfEarlierChunk

(* ------------------------------- C14 ----------------------------------- *)
(* a path was given as output_parquet_file *)
Provided == Truthy(fast.output_parquet_file)

(* C14: a call of find_about_pages_duckdb_fast that was given an           *)
(* output_parquet_file has returned None, a call that was given none has   *)
(* returned a list of urls, whether or not a statement raised; and when    *)
(* the call has returned, its connection is not left open.                 *)
C14_ReturnsByOutputPath ==
    fast.pc = "returned" =>
        /\ Provided => fast.returned = None
        /\ ~Provided =>
              /\ fast.returned # None
              /\ \A k \in DOMAIN fast.returned :
                    fast.returned[k] \in Range(fast.urls_meta_file)
        /\ fast.con # "open"

====
